---- MODULE Spec2Model ----
(***************************************************************************)
(* CHIP-8 interpreter of src/chip8/main.c: the emulated machine (memory,   *)
(* registers, stack, framebuffer, key latch, timers), emulate_cycle, and   *)
(* the scheduler loop of main with sdl_handler as its input collaborator.  *)
(***************************************************************************)
EXTENDS Integers, Sequences, FiniteSets, TLC

(***************************************************************************)
(* Program constants.                                                      *)
(***************************************************************************)
SCREEN_WIDTH == 64
SCREEN_HEIGHT == 32
MEMORY_SIZE == 4096
ROM_BASE == 512
STACK_SIZE == 16
NUM_KEYS == 16
NUM_REGS == 16
BATCH_SIZE == 16
TICK_MS == 16
NO_KEY == 255
INDEX_STEP == 15

DISPLAY_SIZE == SCREEN_WIDTH * SCREEN_HEIGHT

Byte == 0..255

(***************************************************************************)
(* Bounds of the model.                                                    *)
(***************************************************************************)
\* keys 0..MaxKey-1 are the ones the user touches in a run with key input
MaxKey == 2
\* deepest nesting of 2NNN calls in the subroutine ROMs
MaxDepth == 15
\* saturation of the ghost tick counter that follows a timer after FX15/FX18
TickCap == 6
\* saturation of the count of srand() calls
SeedCap == 3

(***************************************************************************)
(* Fixed-width arithmetic.                                                 *)
(***************************************************************************)
U8(n) == n % 256
U16(n) == n % 65536

Bit(v, n) == (v \div (2 ^ n)) % 2

BitAnd(a, b) ==
    LET t(n) == (2 ^ n) * (Bit(a, n) * Bit(b, n))
    IN  t(0) + t(1) + t(2) + t(3) + t(4) + t(5) + t(6) + t(7)

BitOr(a, b) ==
    LET t(n) == (2 ^ n) * (IF Bit(a, n) + Bit(b, n) > 0 THEN 1 ELSE 0)
    IN  t(0) + t(1) + t(2) + t(3) + t(4) + t(5) + t(6) + t(7)

BitXor(a, b) ==
    LET t(n) == (2 ^ n) * ((Bit(a, n) + Bit(b, n)) % 2)
    IN  t(0) + t(1) + t(2) + t(3) + t(4) + t(5) + t(6) + t(7)

(***************************************************************************)
(* The font copied to memory[0..79] by init_cpu.                           *)
(***************************************************************************)
fontset ==
    << 240, 144, 144, 144, 240,   32,  96,  32,  32, 112,
       240,  16, 240, 128, 240,  240,  16, 240,  16, 240,
       144, 144, 240,  16,  16,  240, 128, 240,  16, 240,
       240, 128, 240, 144, 240,  240,  16,  32,  64,  64,
       240, 144, 240, 144, 240,  240, 144, 240,  16, 240,
       240, 144, 240, 144, 144,  224, 144, 224, 144, 224,
       240, 128, 128, 128, 240,  224, 144, 144, 144, 224,
       240, 128, 240, 128, 240,  240, 128, 240, 128, 128 >>

(***************************************************************************)
(* State.  The globals of main.c, the locals of main that live across loop *)
(* iterations, and history variables that only record what happened.       *)
(***************************************************************************)
VARIABLES
    memory,         \* uint8_t memory[4096]
    V,              \* uint8_t V[16]
    I,              \* uint16_t I
    PC,             \* uint16_t PC
    stack,          \* uint16_t stack[16]
    stack_idx,      \* uint8_t stack_idx
    keypad,         \* uint8_t keypad[16]
    display,        \* uint8_t display[64 * 32]
    delay_timer,    \* uint8_t delay_timer
    sound_timer,    \* uint8_t sound_timer
    draw_flag,      \* uint8_t draw_flag
    key_found,      \* bool key_found
    key_pressed,    \* uint8_t key_pressed
    srand_calls,    \* the random source of libc: the srand() calls made so far, up to SeedCap
    should_quit,    \* bool should_quit
    rom_file,       \* the file argv[1] names, as fopen, stat and fread show it
    err_check_load_rom, \* int err_check_load_rom of main
    pc,             \* position of main: "load", "while", "batch", "flush", "timers", "handler",
                    \* "done" (the loop was left), "exit" (return 1 before the loop)
    i,              \* loop counter of the batch in main
    draw_occurred,  \* bool draw_occurred of main
    current_time,   \* uint32_t current_time of main (read once, before the loop)
    last_draw_time, \* uint32_t last_draw_time of main
    ub,             \* history: an access outside an array has happened
    user_keys,      \* environment: the keys the user touches in this run
    last_op,        \* history: word executed by the latest emulate_cycle call (-1: none yet)
    last_PC,        \* history: PC at the start of the latest emulate_cycle call
    last_V,         \* history: V at the start of the latest emulate_cycle call
    last_display,   \* history: display at the start of the latest emulate_cycle call
    tick_calls,     \* history: emulate_cycle calls made in the current tick
    tick_draws,     \* history: DXYN instructions executed in the current tick
    tick_flushes,   \* history: draw_on_screen calls made in the current tick
    tick_timers,    \* history: the timers were decremented in the current tick
    wait_seen,      \* history: a key was down at some call since PC arrived at the FX0A it is at
    done_key,       \* history: key whose release completed the latest FX0A and that was not down since
    calls,          \* history: the 2NNN calls not yet returned from (address, stack_idx before), until ub
    dt_set,         \* history: value FX15 last gave delay_timer
    dt_ticks,       \* history: ticks since then, saturating at TickCap
    st_set,         \* history: value FX18 last gave sound_timer
    st_ticks        \* history: ticks since then, saturating at TickCap

cpu_vars == << memory, V, I, PC, stack, stack_idx, keypad, display, delay_timer,
               sound_timer, draw_flag, key_found, key_pressed, srand_calls >>
boot_vars == << rom_file, err_check_load_rom >>
main_vars == << should_quit, pc, i, draw_occurred, current_time, last_draw_time >>
hist_vars == << ub, user_keys, last_op, last_PC, last_V, last_display, tick_calls,
                tick_draws, tick_flushes, tick_timers, wait_seen, done_key, calls,
                dt_set, dt_ticks, st_set, st_ticks >>
vars == << cpu_vars, boot_vars, main_vars, hist_vars >>

\* The machine state emulate_cycle works on, as one record.
CpuState ==
    [ memory |-> memory, V |-> V, I |-> I, PC |-> PC, stack |-> stack,
      stack_idx |-> stack_idx, keypad |-> keypad, display |-> display,
      delay_timer |-> delay_timer, sound_timer |-> sound_timer,
      draw_flag |-> draw_flag, key_found |-> key_found,
      key_pressed |-> key_pressed, srand_calls |-> srand_calls, ub |-> ub,
      ret |-> FALSE ]

(***************************************************************************)
(* Array accesses.  An index outside the array is undefined behaviour: a   *)
(* read yields the value w the caller draws from a set, a write leaves the *)
(* array alone; both are recorded in ub.                                   *)
(***************************************************************************)
MemRead(c, a, w) == IF a \in 0..(MEMORY_SIZE - 1) THEN c.memory[a] ELSE w

MemWrite(c, a, v) ==
    IF a \in 0..(MEMORY_SIZE - 1)
    THEN [c EXCEPT !.memory[a] = v]
    ELSE [c EXCEPT !.ub = TRUE]

\* records that the read of memory[a] is outside the array
MemTouch(c, a) == IF a \in 0..(MEMORY_SIZE - 1) THEN c ELSE [c EXCEPT !.ub = TRUE]

StackRead(c, k, w) == IF k \in 0..(STACK_SIZE - 1) THEN c.stack[k] ELSE w

KeyRead(c, k, w) == IF k \in 0..(NUM_KEYS - 1) THEN c.keypad[k] ELSE w

\* uint16_t op = memory[PC] << 8 | memory[PC + 1]
Fetch(c, w) == MemRead(c, c.PC, w) * 256 + MemRead(c, c.PC + 1, w)

Advance(c) == [c EXCEPT !.PC = U16(c.PC + 2)]

\* TRUE.  Used in the loops below so that the state a pass leaves is evaluated before the
\* next pass starts, as in the source, instead of nesting all the passes.
Strict(c) == c.ub \in BOOLEAN

Skip(c, cond) == IF cond THEN Advance(Advance(c)) ELSE Advance(c)

SetV(c, x, v) == [c EXCEPT !.V[x] = v]

(***************************************************************************)
(* emulate_cycle, one operator per case of its switch.  Each takes the     *)
(* machine state c and returns the state the case leaves.  u is what the   *)
(* call draws from outside the machine: u.rand the value of rand() % 255,  *)
(* u.wild the byte and u.wildw the 16-bit word a read outside an array     *)
(* yields.                                                                 *)
(***************************************************************************)

\* faulty variant of Op00E0: the loop stops after the first row
Op00E0_FirstRow(c) ==
    Advance([c EXCEPT !.display = [k \in 0..(DISPLAY_SIZE - 1) |->
                                      IF k < SCREEN_WIDTH THEN 0 ELSE c.display[k]]])

\* case 0x0E0: clear the screen
Op00E0(c) == Advance([c EXCEPT !.display = [k \in 0..(DISPLAY_SIZE - 1) |-> 0]])

\* case 0x0EE: PC = stack[stack_idx]; stack_idx--; PC += 2
Op00EE(c, u) ==
    LET top == StackRead(c, c.stack_idx, u.wildw)
        bad == c.stack_idx > STACK_SIZE - 1
    IN  [c EXCEPT !.PC = U16(top + 2),
                  !.stack_idx = U8(c.stack_idx - 1 + 256),
                  !.ub = c.ub \/ bad]

\* faulty variant of Op1NNN: the default step is applied after the jump
Op1NNN_ThenAdvance(c, nnn) == Advance([c EXCEPT !.PC = nnn])

\* case 0x1: PC = NNN
Op1NNN(c, nnn) == [c EXCEPT !.PC = nnn]

\* faulty variant of Op2NNN: pushes the address after the call, which 00EE then steps over
Op2NNN_PushNext(c, nnn) ==
    LET idx == U8(c.stack_idx + 1)
    IN  IF idx \in 0..(STACK_SIZE - 1)
        THEN [c EXCEPT !.stack_idx = idx, !.stack[idx] = U16(c.PC + 2), !.PC = nnn]
        ELSE [c EXCEPT !.stack_idx = idx, !.PC = nnn, !.ub = TRUE]

\* case 0x2: stack_idx++; stack[stack_idx] = PC; PC = NNN
Op2NNN(c, nnn) ==
    LET idx == U8(c.stack_idx + 1)
    IN  IF idx \in 0..(STACK_SIZE - 1)
        THEN [c EXCEPT !.stack_idx = idx, !.stack[idx] = c.PC, !.PC = nnn]
        ELSE [c EXCEPT !.stack_idx = idx, !.PC = nnn, !.ub = TRUE]

Op3XNN(c, X, nn) == Skip(c, c.V[X] = nn)

Op4XNN(c, X, nn) == Skip(c, c.V[X] # nn)

Op5XY0(c, X, Y) == Skip(c, c.V[X] = c.V[Y])

Op6XNN(c, X, nn) == Advance(SetV(c, X, nn))

Op7XNN(c, X, nn) == Advance(SetV(c, X, U8(c.V[X] + nn)))

Op8XY0(c, X, Y) == Advance(SetV(c, X, c.V[Y]))

\* faulty variant of Op8XY1: VF is left as it was
Op8XY1_KeepFlag(c, X, Y) == Advance(SetV(c, X, BitOr(c.V[X], c.V[Y])))

\* V[X] = V[X] | V[Y]; V[15] = 0
Op8XY1(c, X, Y) == Advance(SetV(SetV(c, X, BitOr(c.V[X], c.V[Y])), 15, 0))

Op8XY2(c, X, Y) == Advance(SetV(SetV(c, X, BitAnd(c.V[X], c.V[Y])), 15, 0))

Op8XY3(c, X, Y) == Advance(SetV(SetV(c, X, BitXor(c.V[X], c.V[Y])), 15, 0))

\* faulty variant of Op8XY4: the carry is not written again after the sum when X = F
Op8XY4_ResultWins(c, X, Y) ==
    LET sum == c.V[X] + c.V[Y]
        carry == IF sum > 255 THEN 1 ELSE 0
    IN  Advance(SetV(SetV(c, 15, carry), X, BitAnd(sum % 256, 255)))

\* sum = V[X] + V[Y]; V[F] = carry; V[X] = sum & 0xFF; if X == F then V[F] = carry
Op8XY4(c, X, Y) ==
    LET sum == c.V[X] + c.V[Y]
        carry == IF sum > 255 THEN 1 ELSE 0
        c1 == SetV(SetV(c, 15, carry), X, BitAnd(sum % 256, 255))
    IN  Advance(IF X = 15 THEN SetV(c1, 15, carry) ELSE c1)

\* faulty variant of Op8XY5: the flag is set only when V[X] > V[Y]
Op8XY5_Strict(c, X, Y) ==
    LET diff == U8(c.V[X] - c.V[Y] + 256)
        c1 == SetV(c, 15, IF c.V[X] > c.V[Y] THEN 1 ELSE 0)
    IN  Advance(IF X # 15 THEN SetV(c1, X, diff) ELSE c1)

\* diff = V[X] - V[Y]; V[F] = (V[X] >= V[Y]); if X != F then V[X] = diff
Op8XY5(c, X, Y) ==
    LET diff == U8(c.V[X] - c.V[Y] + 256)
        c1 == SetV(c, 15, IF c.V[X] >= c.V[Y] THEN 1 ELSE 0)
    IN  Advance(IF X # 15 THEN SetV(c1, X, diff) ELSE c1)

\* faulty variant of Op8XY6: VX is shifted in place, VY is not read
Op8XY6_InPlace(c, X, Y) ==
    LET shifted_bit == BitAnd(c.V[X], 1)
        c2 == SetV(c, X, c.V[X] \div 2)
    IN  Advance(SetV(c2, 15, IF shifted_bit # 0 THEN 1 ELSE 0))

\* V[X] = V[Y]; bit = V[X] & 1; V[X] /= 2; V[F] = bit
Op8XY6(c, X, Y) ==
    LET c1 == SetV(c, X, c.V[Y])
        shifted_bit == BitAnd(c1.V[X], 1)
        c2 == SetV(c1, X, c1.V[X] \div 2)
    IN  Advance(SetV(c2, 15, IF shifted_bit # 0 THEN 1 ELSE 0))

\* diff2 = V[Y] - V[X]; V[F] = (V[Y] >= V[X]); if X != F then V[X] = diff2
Op8XY7(c, X, Y) ==
    LET diff2 == U8(c.V[Y] - c.V[X] + 256)
        c1 == SetV(c, 15, IF c.V[Y] >= c.V[X] THEN 1 ELSE 0)
    IN  Advance(IF X # 15 THEN SetV(c1, X, diff2) ELSE c1)

\* V[X] = V[Y]; bit = V[X] & 0x80; V[X] *= 2; V[F] = bit ? 1 : 0
Op8XYE(c, X, Y) ==
    LET c1 == SetV(c, X, c.V[Y])
        shifted_bit2 == BitAnd(c1.V[X], 128)
        c2 == SetV(c1, X, U8(c1.V[X] * 2))
    IN  Advance(SetV(c2, 15, IF shifted_bit2 # 0 THEN 1 ELSE 0))

\* case 0x8: the inner switch on the last nibble; its default changes nothing
Op8XYN(c, X, Y, n) ==
    CASE n = 0 -> Op8XY0(c, X, Y)
      [] n = 1 -> Op8XY1(c, X, Y)
      [] n = 2 -> Op8XY2(c, X, Y)
      [] n = 3 -> Op8XY3(c, X, Y)
      [] n = 4 -> Op8XY4(c, X, Y)
      [] n = 5 -> Op8XY5(c, X, Y)
      [] n = 6 -> Op8XY6(c, X, Y)
      [] n = 7 -> Op8XY7(c, X, Y)
      [] n = 14 -> Op8XYE(c, X, Y)
      [] OTHER -> c

\* case 0x9: skip when the last nibble is 0 and V[X] != V[Y]
Op9XY0(c, X, Y, n) == Skip(c, n = 0 /\ c.V[X] # c.V[Y])

OpANNN(c, nnn) == Advance([c EXCEPT !.I = nnn])

\* PC = V[0] + NNN
OpBNNN(c, nnn) == [c EXCEPT !.PC = U16(c.V[0] + nnn)]

\* srand(time(NULL))
Reseed(c) == [c EXCEPT !.srand_calls = IF @ < SeedCap THEN @ + 1 ELSE @]

\* srand(time(NULL)); r = rand() % 255; V[X] = r & NN
OpCXNN(c, X, nn, u) == Advance(SetV(Reseed(c), X, BitAnd(u.rand, nn)))

(***************************************************************************)
(* case 0xD: DXYN.  The loops of the source, row by row and bit by bit.    *)
(***************************************************************************)

\* faulty variant of DrawPixel: the pixel is incremented instead of toggled
DrawPixel_Add(c, idx) ==
    IF idx \in 0..(DISPLAY_SIZE - 1)
    THEN [c EXCEPT !.V[15] = IF c.display[idx] = 1 THEN 1 ELSE @,
                   !.display[idx] = U8(@ + 1)]
    ELSE [c EXCEPT !.ub = TRUE]

\* faulty variant of DrawPixel: the pixel is set instead of toggled
DrawPixel_Or(c, idx) ==
    IF idx \in 0..(DISPLAY_SIZE - 1)
    THEN [c EXCEPT !.V[15] = IF c.display[idx] = 1 THEN 1 ELSE @,
                   !.display[idx] = 1]
    ELSE [c EXCEPT !.ub = TRUE]

\* the body of the inner loop once the bit is set and the column is on screen:
\* if (display[idx] == 1) V[F] = 1; display[idx] ^= 1
DrawPixel(c, idx) ==
    IF idx \in 0..(DISPLAY_SIZE - 1)
    THEN [c EXCEPT !.V[15] = IF c.display[idx] = 1 THEN 1 ELSE @,
                   !.display[idx] = BitXor(@, 1)]
    ELSE [c EXCEPT !.ub = TRUE]

\* faulty variant of DrawBit: no test of the column, so a bit past the right edge lands in the next row
DrawBit_NoClip(c, x_coord, y_coord, nth_byte, nth_bit, curr_sprite) ==
    IF BitAnd(curr_sprite, 128 \div (2 ^ nth_bit)) # 0
    THEN DrawPixel(c, x_coord + nth_bit + ((y_coord + nth_byte) * SCREEN_WIDTH))
    ELSE c

\* one pass of the inner loop: a clear bit and a column >= SCREEN_WIDTH are skipped
DrawBit(c, x_coord, y_coord, nth_byte, nth_bit, curr_sprite) ==
    IF BitAnd(curr_sprite, 128 \div (2 ^ nth_bit)) # 0
    THEN IF nth_bit + x_coord >= SCREEN_WIDTH
         THEN c
         ELSE DrawPixel(c, x_coord + nth_bit + ((y_coord + nth_byte) * SCREEN_WIDTH))
    ELSE c

RECURSIVE DrawBits(_, _, _, _, _, _)
DrawBits(c, x_coord, y_coord, nth_byte, nth_bit, curr_sprite) ==
    IF nth_bit < 8 /\ Strict(c)
    THEN DrawBits(DrawBit(c, x_coord, y_coord, nth_byte, nth_bit, curr_sprite),
                  x_coord, y_coord, nth_byte, nth_bit + 1, curr_sprite)
    ELSE c

\* one pass of the outer loop: the row is read, then skipped when it is below the screen
DrawRow(c, x_coord, y_coord, nth_byte, u) ==
    LET c1 == MemTouch(c, c.I + nth_byte)
        curr_sprite == MemRead(c, c.I + nth_byte, u.wild)
    IN  IF nth_byte + y_coord >= SCREEN_HEIGHT
        THEN c1
        ELSE DrawBits(c1, x_coord, y_coord, nth_byte, 0, curr_sprite)

RECURSIVE DrawRows(_, _, _, _, _, _)
DrawRows(c, x_coord, y_coord, n_bytes, nth_byte, u) ==
    IF nth_byte < n_bytes /\ Strict(c)
    THEN DrawRows(DrawRow(c, x_coord, y_coord, nth_byte, u),
                  x_coord, y_coord, n_bytes, nth_byte + 1, u)
    ELSE c

\* x_coord and y_coord are taken before V[F] is reset; draw_flag = 1; return true
OpDXYN(c, X, Y, n_bytes, u) ==
    LET x_coord == c.V[X] % SCREEN_WIDTH
        y_coord == c.V[Y] % SCREEN_HEIGHT
        c1 == DrawRows(SetV(c, 15, 0), x_coord, y_coord, n_bytes, 0, u)
    IN  Advance([c1 EXCEPT !.draw_flag = 1, !.ret = TRUE])

(***************************************************************************)
(* case 0xE: the key skips.                                                *)
(***************************************************************************)
KeyTouch(c, k) == IF k \in 0..(NUM_KEYS - 1) THEN c ELSE [c EXCEPT !.ub = TRUE]

OpEX9E(c, X, u) == Skip(KeyTouch(c, c.V[X]), KeyRead(c, c.V[X], u.wild) # 0)

OpEXA1(c, X, u) == Skip(KeyTouch(c, c.V[X]), KeyRead(c, c.V[X], u.wild) = 0)

OpEXNN(c, X, nn, u) ==
    CASE nn = 158 -> OpEX9E(c, X, u)
      [] nn = 161 -> OpEXA1(c, X, u)
      [] OTHER -> c

(***************************************************************************)
(* case 0xF.                                                               *)
(***************************************************************************)
OpFX07(c, X) == Advance(SetV(c, X, c.delay_timer))

\* faulty variant of WaitRelease: level-triggered, steps on as soon as any key is down
WaitRelease_Level(c) ==
    IF \E k \in 0..(NUM_KEYS - 1) : c.keypad[k] # 0
    THEN Advance([c EXCEPT !.key_found = FALSE, !.key_pressed = NO_KEY])
    ELSE c

\* the first half of FX0A: the latched key was released, so clear the latch and step on
WaitRelease(c) ==
    IF c.key_found /\ c.key_pressed # NO_KEY
    THEN IF KeyRead(c, c.key_pressed, 0) = 0
         THEN Advance([c EXCEPT !.key_found = FALSE, !.key_pressed = NO_KEY])
         ELSE c
    ELSE c

\* faulty variant of WaitScan: the key it captures is also cleared in keypad
WaitScan_Consume(c, X) ==
    LET down == {k \in 0..(NUM_KEYS - 1) : c.keypad[k] # 0}
    IN  IF down = {}
        THEN c
        ELSE LET k == CHOOSE k \in down : \A j \in down : k <= j
             IN  [SetV(c, X, k) EXCEPT !.key_found = TRUE, !.key_pressed = k,
                                       !.keypad[k] = 0]

\* the second half of FX0A: the lowest key that is down is put in V[X] and latched
WaitScan(c, X) ==
    LET down == {k \in 0..(NUM_KEYS - 1) : c.keypad[k] # 0}
    IN  IF down = {}
        THEN c
        ELSE LET k == CHOOSE k \in down : \A j \in down : k <= j
             IN  [SetV(c, X, k) EXCEPT !.key_found = TRUE, !.key_pressed = k]

OpFX0A(c, X) == WaitScan(WaitRelease(c), X)

OpFX15(c, X) == Advance([c EXCEPT !.delay_timer = c.V[X]])

OpFX18(c, X) == Advance([c EXCEPT !.sound_timer = c.V[X]])

OpFX1E(c, X) == Advance([c EXCEPT !.I = U16(c.I + c.V[X])])

OpFX29(c, X) == Advance([c EXCEPT !.I = c.V[X] * 5])

OpFX33(c, X) ==
    LET vx_value == c.V[X]
        hundreds == vx_value \div 100
        tens == (vx_value % 100) \div 10
        ones == vx_value % 10
    IN  Advance(MemWrite(MemWrite(MemWrite(c, c.I, hundreds), c.I + 1, tens), c.I + 2, ones))

\* for (i = 0; i <= X; i++) memory[I + i] = V[i]
RECURSIVE StoreRegs(_, _, _)
StoreRegs(c, X, k) ==
    IF k <= X /\ Strict(c) THEN StoreRegs(MemWrite(c, c.I + k, c.V[k]), X, k + 1) ELSE c

\* for (i = 0; i <= X; i++) V[i] = memory[I + i]
RECURSIVE LoadRegs(_, _, _, _)
LoadRegs(c, X, k, u) ==
    IF k <= X /\ Strict(c)
    THEN LoadRegs(SetV(MemTouch(c, c.I + k), k, MemRead(c, c.I + k, u.wild)), X, k + 1, u)
    ELSE c

\* what FX55 and FX65 do to I after the copy: I += 15
IndexAfterCopy(c, X) == [c EXCEPT !.I = U16(c.I + INDEX_STEP)]

OpFX55(c, X) == Advance(IndexAfterCopy(StoreRegs(c, X, 0), X))

OpFX65(c, X, u) == Advance(IndexAfterCopy(LoadRegs(c, X, 0, u), X))

\* the inner switch of case 0xF has no default: any other low byte changes nothing
OpFXNN(c, X, nn, u) ==
    CASE nn = 7 -> OpFX07(c, X)
      [] nn = 10 -> OpFX0A(c, X)
      [] nn = 21 -> OpFX15(c, X)
      [] nn = 24 -> OpFX18(c, X)
      [] nn = 30 -> OpFX1E(c, X)
      [] nn = 41 -> OpFX29(c, X)
      [] nn = 51 -> OpFX33(c, X)
      [] nn = 85 -> OpFX55(c, X)
      [] nn = 101 -> OpFX65(c, X, u)
      [] OTHER -> c

\* case 0x0: the inner switch on the low 12 bits; its default changes nothing
Op0NNN(c, nnn, u) ==
    CASE nnn = 224 -> Op00E0(c)
      [] nnn = 238 -> Op00EE(c, u)
      [] OTHER -> c

(***************************************************************************)
(* emulate_cycle: fetch, decode, dispatch.  The result's ret is the value  *)
(* the call returns.                                                       *)
(***************************************************************************)
OpWord(c, u) == Fetch(c, u.wild)

Decode(op) ==
    [ opcode_type |-> op \div 4096, op_nibbles |-> op % 4096,
      X |-> (op % 4096) \div 256, Y |-> (op % 256) \div 16,
      N |-> op % 16, NN |-> op % 256 ]

emulate_cycle(c0, u) ==
    LET c == MemTouch(MemTouch(c0, c0.PC), c0.PC + 1)
        d == Decode(OpWord(c0, u))
        t == d.opcode_type
    IN  CASE t = 0 -> Op0NNN(c, d.op_nibbles, u)
          [] t = 1 -> Op1NNN(c, d.op_nibbles)
          [] t = 2 -> Op2NNN(c, d.op_nibbles)
          [] t = 3 -> Op3XNN(c, d.X, d.NN)
          [] t = 4 -> Op4XNN(c, d.X, d.NN)
          [] t = 5 -> Op5XY0(c, d.X, d.Y)
          [] t = 6 -> Op6XNN(c, d.X, d.NN)
          [] t = 7 -> Op7XNN(c, d.X, d.NN)
          [] t = 8 -> Op8XYN(c, d.X, d.Y, d.N)
          [] t = 9 -> Op9XY0(c, d.X, d.Y, d.N)
          [] t = 10 -> OpANNN(c, d.op_nibbles)
          [] t = 11 -> OpBNNN(c, d.op_nibbles)
          [] t = 12 -> OpCXNN(c, d.X, d.NN, u)
          [] t = 13 -> OpDXYN(c, d.X, d.Y, d.N, u)
          [] t = 14 -> OpEXNN(c, d.X, d.NN, u)
          [] OTHER -> OpFXNN(c, d.X, d.NN, u)

(***************************************************************************)
(* Programs.  A ROM is a sequence of 16-bit words; load_rom copies its     *)
(* bytes, high byte first, to memory from 0x200.                           *)
(***************************************************************************)
Word(a, b, c, d) == a * 4096 + b * 256 + c * 16 + d

Jump(addr) == 4096 + addr
Call(addr) == 8192 + addr
SetI(addr) == 40960 + addr

\* address of the k-th word (k = 0, 1, ...) of a ROM
At(k) == ROM_BASE + 2 * k

RomBytes(rom) ==
    [k \in 1..(2 * Len(rom)) |->
        IF k % 2 = 1 THEN rom[(k + 1) \div 2] \div 256 ELSE rom[k \div 2] % 256]

\* memory after init_cpu (the font) and a successful load_rom
LoadedMemory(rom) ==
    LET bytes == RomBytes(rom)
    IN  [a \in 0..(MEMORY_SIZE - 1) |->
            IF a < Len(fontset) THEN fontset[a + 1]
            ELSE IF a >= ROM_BASE /\ a - ROM_BASE < Len(bytes) THEN bytes[a - ROM_BASE + 1]
            ELSE 0]

\* memory after init_cpu alone: the font, the rest as the static initialiser leaves it
FontMemory ==
    [a \in 0..(MEMORY_SIZE - 1) |-> IF a < Len(fontset) THEN fontset[a + 1] ELSE 0]

\* A file as load_rom sees it: errno is what a failed fopen leaves in errno (0: the file
\* opens), st_size the size stat reports, bytes the bytes fread can deliver.
FileOf(rom) == [errno |-> 0, st_size |-> 2 * Len(rom), bytes |-> RomBytes(rom)]

\* faulty variant of load_rom: the size test is left out
load_rom_NoSizeTest(f, mem) ==
    IF f.errno # 0
    THEN [ret |-> f.errno, memory |-> mem]
    ELSE LET room == MEMORY_SIZE - ROM_BASE
             bytes_read == IF Len(f.bytes) < room THEN Len(f.bytes) ELSE room
         IN  [ret |-> 0,
              memory |-> [a \in 0..(MEMORY_SIZE - 1) |->
                              IF a >= ROM_BASE /\ a - ROM_BASE < bytes_read
                              THEN f.bytes[a - ROM_BASE + 1] ELSE mem[a]]]

\* load_rom: the value it returns and memory as fread leaves it.  fread copies at most
\* sizeof(memory) - 0x200 bytes to memory + 0x200.
load_rom(f, mem) ==
    IF f.errno # 0
    THEN [ret |-> f.errno, memory |-> mem]
    ELSE LET room == MEMORY_SIZE - ROM_BASE
             bytes_read == IF Len(f.bytes) < room THEN Len(f.bytes) ELSE room
         IN  [ret |-> IF bytes_read # f.st_size THEN -1 ELSE 0,
              memory |-> [a \in 0..(MEMORY_SIZE - 1) |->
                              IF a >= ROM_BASE /\ a - ROM_BASE < bytes_read
                              THEN f.bytes[a - ROM_BASE + 1] ELSE mem[a]]]

\* FX0A twice in a row, and FX0A twice with a draw (which ends the batch) between
KeyRoms ==
    { << Word(15, 1, 0, 10), Word(15, 2, 0, 10), Jump(At(0)) >>,
      << Word(15, 1, 0, 10), Word(13, 0, 0, 1), Word(15, 2, 0, 10), Jump(At(0)) >> }

\* d nested subroutines: level k calls level k + 1 and returns; the main level then spins
NestRom(d) ==
    [k \in 1..(2 * d + 1) |->
        IF k = 2 * d + 1 THEN 238
        ELSE IF k % 2 = 1 THEN Call(At(k + 1))
        ELSE IF k = 2 THEN Jump(At(1))
        ELSE 238]

\* the same subroutine called from two places, directly and from another subroutine
CallRoms ==
    {NestRom(d) : d \in 1..MaxDepth} \cup
    { << Call(At(3)), Call(At(3)), Jump(At(2)), 238 >>,
      << Call(At(3)), Call(At(5)), Jump(At(2)), Call(At(5)), 238, 238 >> }

\* a sprite of 15 equal rows b, as the words that follow the code of a ROM
SpriteWords(b) == [k \in 1..8 |-> IF k < 8 THEN b * 256 + b ELSE b * 256]

\* VX = x, VY = y, I = sprite; the same DXYN three times, then once more 4 columns on
DrawRom(X, Y, x, y, n, b) ==
    << Word(6, X, x \div 16, x % 16), Word(6, Y, y \div 16, y % 16), SetI(At(9)),
       Word(13, X, Y, n), Word(13, X, Y, n), Word(13, X, Y, n),
       Word(7, X, 0, 4), Word(13, X, Y, n), Jump(At(8)) >> \o SpriteWords(b)

\* origins on screen, at the right and bottom edges, and above 63 / 31 (taken modulo)
DrawRoms ==
    {DrawRom(1, 2, x, y, n, b) :
        x \in {0, 60, 63, 191}, y \in {0, 30, 95}, n \in {1, 2, 15}, b \in {255, 129}} \cup
    { DrawRom(15, 2, 60, 31, 2, 255), DrawRom(1, 15, 63, 30, 15, 255),
      DrawRom(1, 2, 8, 8, 0, 255), DrawRom(1, 2, 60, 31, 2, 0),
      DrawRom(3, 3, 62, 1, 15, 24) }

\* delay_timer = k and sound_timer = m, then a jump to itself
TimerRom(k, m) ==
    << Word(6, 1, k \div 16, k % 16), Word(15, 1, 1, 5),
       Word(6, 2, m \div 16, m % 16), Word(15, 2, 1, 8), Jump(At(4)) >>

\* n times 6101, then a draw, then a jump to itself
PaddedDrawRom(n) ==
    [k \in 1..(n + 2) |->
        IF k <= n THEN Word(6, 1, 0, 1)
        ELSE IF k = n + 1 THEN Word(13, 0, 0, 1)
        ELSE Jump(At(n + 1))]

\* timers that run out while the program spins; a loop that reloads both timers and draws
\* twice per pass; a draw as the 3rd, 16th and 17th instruction
SchedRoms ==
    {TimerRom(k, m) : k \in {0, 1, 5}, m \in {0, 3}} \cup
    { << Word(6, 1, 0, 5), Word(15, 1, 1, 5), Word(13, 0, 0, 1), Word(15, 3, 0, 7),
         Word(13, 0, 0, 5), Word(6, 2, 0, 3), Word(15, 2, 1, 8), Jump(At(1)) >> } \cup
    {PaddedDrawRom(n) : n \in {2, BATCH_SIZE - 1, BATCH_SIZE}}

\* V0, V1, V2, VF set, I = addr, FX55, V0 and V1 cleared, FX65, then a jump to itself
CopyRom(X, addr) ==
    << Word(6, 0, 1, 1), Word(6, 1, 2, 2), Word(6, 2, 3, 3), Word(6, 15, 4, 4), SetI(addr),
       Word(15, X, 5, 5), Word(6, 0, 0, 0), Word(6, 1, 0, 0), Word(15, X, 6, 5),
       Jump(At(9)) >>

\* copies of 1, 2, 3 and 16 registers, in the middle of memory and up to its last byte
CopyRoms == {CopyRom(X, addr) : X \in {0, 1, 2, 15}, addr \in {768, MEMORY_SIZE - 16}}

\* values SDL_GetTicks() has when main reads it: below and at one tick period
StartTimes == {TICK_MS - 1, TICK_MS}

\* int r = rand() % 255: the modulus
RAND_MOD == 255

\* the values r can have: rand() is in 0..RAND_MAX and RAND_MAX is at least 32767
RandValues == 0..(RAND_MOD - 1)

\* what a call of emulate_cycle draws from outside the machine: r (the ends of its range)
\* and the content of an element past the end of an array
Outside ==
    {[rand |-> r, wild |-> w, wildw |-> w * 257] :
        r \in {0, RAND_MOD - 1}, w \in {0, 255}}

\* whether the call about to run in state c reads anything from outside the machine:
\* rand() in CXNN, or an element past the end of memory, stack or keypad
ReadsOutside(c) ==
    LET d == Decode(Fetch(c, 0))
    IN  \/ c.PC + 1 > MEMORY_SIZE - 1
        \/ d.opcode_type = 12
        \/ d.opcode_type = 13 /\ c.I + d.N > MEMORY_SIZE
        \/ d.opcode_type = 0 /\ d.op_nibbles = 238 /\ c.stack_idx > STACK_SIZE - 1
        \/ d.opcode_type = 14 /\ c.V[d.X] > NUM_KEYS - 1
        \/ d.opcode_type = 15 /\ d.NN = 101 /\ c.I + d.X > MEMORY_SIZE - 1

\* the values a call in state c can draw: all of Outside when it reads any, else one
\* (the call's result does not depend on it)
OutsideFor(c) ==
    IF ReadsOutside(c) THEN Outside ELSE {[rand |-> 0, wild |-> 0, wildw |-> 0]}

(***************************************************************************)
(* The state main is in when it reaches its loop: the static initialisers  *)
(* of the globals, init_cpu, load_rom of rom, and current_time = t0.       *)
(***************************************************************************)
InitState(mem, f, keys, t0, at) ==
    /\ memory = mem
    /\ V = [k \in 0..(NUM_REGS - 1) |-> 0]
    /\ I = 0
    /\ PC = ROM_BASE
    /\ stack = [k \in 0..(STACK_SIZE - 1) |-> 0]
    /\ stack_idx = 0
    /\ keypad = [k \in 0..(NUM_KEYS - 1) |-> 0]
    /\ display = [k \in 0..(DISPLAY_SIZE - 1) |-> 0]
    /\ delay_timer = 0
    /\ sound_timer = 0
    /\ draw_flag = 0
    /\ key_found = FALSE
    /\ key_pressed = NO_KEY
    /\ srand_calls = 1
    /\ rom_file = f
    /\ err_check_load_rom = 0
    /\ should_quit = FALSE
    /\ pc = at
    /\ i = 0
    /\ draw_occurred = FALSE
    /\ current_time = t0
    /\ last_draw_time = 0
    /\ ub = FALSE
    /\ user_keys = keys
    /\ last_op = -1
    /\ last_PC = ROM_BASE
    /\ last_V = V
    /\ last_display = display
    /\ tick_calls = 0
    /\ tick_draws = 0
    /\ tick_flushes = 0
    /\ tick_timers = FALSE
    /\ wait_seen = FALSE
    /\ done_key = NO_KEY
    /\ calls = << >>
    /\ dt_set = 0
    /\ dt_ticks = TickCap
    /\ st_set = 0
    /\ st_ticks = TickCap

\* main at its loop, after a load_rom of rom that returned 0
InitWith(rom, keys, t0) == InitState(LoadedMemory(rom), FileOf(rom), keys, t0, "while")

InitKey == \E rom \in KeyRoms, t0 \in StartTimes : InitWith(rom, 0..(MaxKey - 1), t0)

(***************************************************************************)
(* main's loop.                                                            *)
(***************************************************************************)

\* faulty variant of WhileTest: should_quit is not tested
WhileTest_RunOn ==
    /\ pc = "while"
    /\ IF current_time - 0 >= TICK_MS
       THEN /\ pc' = "batch"
            /\ i' = 0
            /\ draw_occurred' = FALSE
            /\ tick_calls' = 0
            /\ tick_draws' = 0
            /\ tick_flushes' = 0
            /\ tick_timers' = FALSE
       ELSE UNCHANGED << pc, i, draw_occurred, tick_calls, tick_draws, tick_flushes, tick_timers >>
    /\ UNCHANGED << cpu_vars, boot_vars, should_quit, current_time, last_draw_time, ub,
                    user_keys, last_op, last_PC, last_V, last_display, wait_seen, done_key,
                    calls, dt_set, dt_ticks, st_set, st_ticks >>

\* while (!should_quit) { if (current_time - last_timer_update >= 1000 / timer_freq) ...
\* last_timer_update is never assigned, so it is 0.
WhileTest ==
    /\ pc = "while"
    /\ IF should_quit
       THEN /\ pc' = "done"
            /\ UNCHANGED << i, draw_occurred, tick_calls, tick_draws, tick_flushes, tick_timers >>
       ELSE IF current_time - 0 >= TICK_MS
       THEN /\ pc' = "batch"
            /\ i' = 0
            /\ draw_occurred' = FALSE
            /\ tick_calls' = 0
            /\ tick_draws' = 0
            /\ tick_flushes' = 0
            /\ tick_timers' = FALSE
       ELSE UNCHANGED << pc, i, draw_occurred, tick_calls, tick_draws, tick_flushes, tick_timers >>
    /\ UNCHANGED << cpu_vars, boot_vars, should_quit, current_time, last_draw_time, ub, user_keys,
                    last_op, last_PC, last_V, last_display, wait_seen, done_key, calls,
                    dt_set, dt_ticks, st_set, st_ticks >>

IsWait(op) == op \div 4096 = 15 /\ op % 256 = 10
IsDraw(op) == op \div 4096 = 13
IsCall(op) == op \div 4096 = 2
IsReturn(op) == op = 238
IsSetDelay(op) == op \div 4096 = 15 /\ op % 256 = 21
IsSetSound(op) == op \div 4096 = 15 /\ op % 256 = 24

KeyDown(kp) == \E k \in 0..(NUM_KEYS - 1) : kp[k] # 0

\* faulty variant of BatchNext: the batch does not stop at a draw
BatchNext_NoBreak(ret, k) == IF k + 1 >= BATCH_SIZE THEN "flush" ELSE "batch"

\* the batch loop's exit test after one call: break on a draw, else i++ and i < 16
BatchNext(ret, k) == IF ret \/ k + 1 >= BATCH_SIZE THEN "flush" ELSE "batch"

\* for (i = 0; i < 16; i++) { draw_occurred = emulate_cycle(); if (draw_occurred) break; }
\* one pass of the loop body
BatchCall ==
    /\ pc = "batch"
    /\ \E u \in OutsideFor(CpuState) :
        LET op == OpWord(CpuState, u)
            n == emulate_cycle(CpuState, u)
            moved == n.PC # PC
        IN  /\ memory' = n.memory
            /\ V' = n.V
            /\ I' = n.I
            /\ PC' = n.PC
            /\ stack' = n.stack
            /\ stack_idx' = n.stack_idx
            /\ keypad' = n.keypad
            /\ display' = n.display
            /\ delay_timer' = n.delay_timer
            /\ sound_timer' = n.sound_timer
            /\ draw_flag' = n.draw_flag
            /\ key_found' = n.key_found
            /\ key_pressed' = n.key_pressed
            /\ srand_calls' = n.srand_calls
            /\ ub' = n.ub
            /\ draw_occurred' = n.ret
            /\ pc' = BatchNext(n.ret, i)
            /\ i' = IF n.ret THEN i ELSE i + 1
            /\ last_op' = op
            /\ last_PC' = PC
            /\ last_V' = V
            /\ last_display' = display
            /\ tick_calls' = tick_calls + 1
            /\ tick_draws' = IF IsDraw(op) THEN tick_draws + 1 ELSE tick_draws
            /\ wait_seen' = (IsWait(op) /\ ~moved /\ (wait_seen \/ KeyDown(keypad)))
            /\ done_key' = IF IsWait(op) /\ moved THEN key_pressed ELSE done_key
            /\ calls' = IF n.ub THEN calls
                        ELSE IF IsCall(op) THEN Append(calls, [site |-> PC, depth |-> stack_idx])
                        ELSE IF IsReturn(op) /\ calls # << >> THEN SubSeq(calls, 1, Len(calls) - 1)
                        ELSE calls
            /\ dt_set' = IF IsSetDelay(op) THEN n.delay_timer ELSE dt_set
            /\ dt_ticks' = IF IsSetDelay(op) THEN 0 ELSE dt_ticks
            /\ st_set' = IF IsSetSound(op) THEN n.sound_timer ELSE st_set
            /\ st_ticks' = IF IsSetSound(op) THEN 0 ELSE st_ticks
    /\ UNCHANGED << should_quit, current_time, last_draw_time, user_keys,
                    tick_flushes, tick_timers, boot_vars >>

\* faulty variant of FlushIfPending: draw_flag is not cleared after the flush
FlushIfPending_KeepFlag ==
    /\ pc = "flush"
    /\ pc' = "timers"
    /\ IF draw_flag # 0
       THEN /\ last_draw_time' = current_time
            /\ tick_flushes' = tick_flushes + 1
       ELSE UNCHANGED << last_draw_time, tick_flushes >>
    /\ UNCHANGED << cpu_vars, boot_vars, should_quit, i, draw_occurred,
                    current_time, ub, user_keys, last_op, last_PC, last_V, last_display,
                    tick_calls, tick_draws, tick_timers, wait_seen, done_key, calls,
                    dt_set, dt_ticks, st_set, st_ticks >>

\* if (draw_flag) { draw_on_screen(display); draw_flag = 0; last_draw_time = current_time; }
FlushIfPending ==
    /\ pc = "flush"
    /\ pc' = "timers"
    /\ IF draw_flag # 0
       THEN /\ draw_flag' = 0
            /\ last_draw_time' = current_time
            /\ tick_flushes' = tick_flushes + 1
       ELSE UNCHANGED << draw_flag, last_draw_time, tick_flushes >>
    /\ UNCHANGED << memory, V, I, PC, stack, stack_idx, keypad, display, delay_timer,
                    sound_timer, key_found, key_pressed, srand_calls, boot_vars,
                    should_quit, i, draw_occurred,
                    current_time, ub, user_keys, last_op, last_PC, last_V, last_display,
                    tick_calls, tick_draws, tick_timers, wait_seen, done_key, calls,
                    dt_set, dt_ticks, st_set, st_ticks >>

\* faulty variant of TimerStep: decrements without the test, so 0 wraps to 255
TimerStep_Wrap(t) == U8(t - 1 + 256)

\* if (timer > 0) timer -= 1
TimerStep(t) == IF t > 0 THEN t - 1 ELSE t

Saturate(k) == IF k < TickCap THEN k + 1 ELSE k

\* the two decrements, then SDL_Delay for what is left of the frame (no effect on the state)
DecrementTimers ==
    /\ pc = "timers"
    /\ pc' = "handler"
    /\ delay_timer' = TimerStep(delay_timer)
    /\ sound_timer' = TimerStep(sound_timer)
    /\ tick_timers' = TRUE
    /\ dt_ticks' = Saturate(dt_ticks)
    /\ st_ticks' = Saturate(st_ticks)
    /\ UNCHANGED << memory, V, I, PC, stack, stack_idx, keypad, display, draw_flag,
                    key_found, key_pressed, srand_calls, boot_vars, should_quit, i,
                    draw_occurred, current_time,
                    last_draw_time, ub, user_keys, last_op, last_PC, last_V, last_display,
                    tick_calls, tick_draws, tick_flushes, wait_seen, done_key, calls,
                    dt_set, st_set >>

\* keypad[keycode] = state[keymappings[keycode]] for the 16 keys
KeypadOf(down) == [k \in 0..(NUM_KEYS - 1) |-> IF k \in down THEN 1 ELSE 0]

\* sdl_handler: at most one event is polled.  ev is "none" (no event), "quit" (SDL_QUIT)
\* or "other"; down and esc are the keyboard state SDL_GetKeyboardState reports.
sdl_handler(ev, down, esc) ==
    /\ pc = "handler"
    /\ pc' = "while"
    /\ should_quit' = (should_quit \/ ev = "quit" \/ (ev = "other" /\ esc))
    /\ keypad' = IF ev = "other" THEN KeypadOf(down) ELSE keypad
    /\ done_key' = IF done_key # NO_KEY /\ keypad'[done_key] # 0 THEN NO_KEY ELSE done_key
    /\ UNCHANGED << memory, V, I, PC, stack, stack_idx, display, delay_timer, sound_timer,
                    draw_flag, key_found, key_pressed, srand_calls, boot_vars, i,
                    draw_occurred, current_time,
                    last_draw_time, ub, user_keys, last_op, last_PC, last_V, last_display,
                    tick_calls, tick_draws, tick_flushes, tick_timers, wait_seen, calls,
                    dt_set, dt_ticks, st_set, st_ticks >>

HandleInput ==
    \E ev \in {"none", "quit", "other"}, down \in SUBSET user_keys, esc \in BOOLEAN :
        sdl_handler(ev, down, esc)

Next == WhileTest \/ BatchCall \/ FlushIfPending \/ DecrementTimers \/ HandleInput

SpecKey == InitKey /\ [][Next]_vars

InitDraw == \E rom \in DrawRoms, t0 \in StartTimes : InitWith(rom, {}, t0)

SpecDraw == InitDraw /\ [][Next]_vars

InitSched == \E rom \in SchedRoms, t0 \in StartTimes : InitWith(rom, {}, t0)

SpecSched == InitSched /\ [][Next]_vars

InitCopy == \E rom \in CopyRoms, t0 \in StartTimes : InitWith(rom, {}, t0)

SpecCopy == InitCopy /\ [][Next]_vars

InitCall == \E rom \in CallRoms, t0 \in StartTimes : InitWith(rom, {}, t0)

SpecCall == InitCall /\ [][Next]_vars

\* V1 = V2 = 1, then a word that is no instruction, then a jump to itself
UnknownRom(w) == << Word(6, 1, 0, 1), Word(6, 2, 0, 1), w, Jump(At(3)) >>

\* one word for each default branch of emulate_cycle's switches, and 5XYN / 9XYN with N # 0
UnknownRoms ==
    {UnknownRom(w) : w \in { 0, Word(0, 1, 2, 3), Word(5, 1, 2, 1), Word(9, 1, 2, 1),
                             Word(8, 1, 2, 8), Word(8, 1, 2, 15), Word(14, 1, 0, 0),
                             Word(15, 1, 15, 15) }}

InitUnknown == \E rom \in UnknownRoms, t0 \in StartTimes : InitWith(rom, {}, t0)

SpecUnknown == InitUnknown /\ [][Next]_vars

\* a return with no call before it; a subroutine that calls itself; STACK_SIZE nested calls
StackRoms == { << 238, Jump(At(1)) >>, << Call(At(0)) >>, NestRom(STACK_SIZE) }

InitStack == \E rom \in StackRoms, t0 \in StartTimes : InitWith(rom, {}, t0)

SpecStack == InitStack /\ [][Next]_vars

\* I at or near the last byte of memory, then FX33, FX55, FX65 or a two-row DXYN; I driven
\* past the end by FX1E; jumps to the last byte, to an odd address, and by BNNN with V0 = 1
AddrRoms ==
    { << SetI(MEMORY_SIZE - 1), Word(6, 1, 7, 11), Word(15, 1, 3, 3), Jump(At(3)) >>,
      << SetI(MEMORY_SIZE - 2), Word(6, 2, 2, 2), Word(15, 2, 5, 5), Jump(At(3)) >>,
      << SetI(MEMORY_SIZE - 2), Word(15, 2, 6, 5), Jump(At(2)) >>,
      << SetI(MEMORY_SIZE - 1), Word(13, 0, 0, 2), Jump(At(2)) >>,
      << SetI(MEMORY_SIZE - 1), Word(6, 0, 15, 15), Word(15, 0, 1, 14), Word(15, 0, 3, 3),
         Jump(At(4)) >>,
      << Jump(MEMORY_SIZE - 1) >>,
      << Jump(At(0) + 1) >>,
      << Word(6, 0, 0, 1), Word(11, 3, 0, 0) >> }

InitAddr == \E rom \in AddrRoms, t0 \in StartTimes : InitWith(rom, {}, t0)

SpecAddr == InitAddr /\ [][Next]_vars

\* CXNN with masks FF, 0F, F0 and 00, in a loop
RandRoms ==
    { << Word(12, 1, 15, 15), Word(12, 2, 0, 15), Jump(At(0)) >>,
      << Word(6, 1, 3, 3), Word(12, 1, 15, 0), Jump(At(2)) >>,
      << Word(6, 3, 15, 15), Word(12, 3, 0, 0), Word(12, 15, 15, 15), Jump(At(3)) >> }

InitRand == \E rom \in RandRoms, t0 \in StartTimes : InitWith(rom, {}, t0)

SpecRand == InitRand /\ [][Next]_vars

\* every instruction once: a draw of the font's 0, the 8XYN group, the skips (each with a
\* 6600 after it, so that what follows runs whichever way the skip goes), CXNN, the key
\* skips, the FX group, a subroutine that draws over part of the 0, 00E0, BNNN, FX0A, a
\* last draw, and at the end a word that is no instruction
AllOpsRom ==
    << Word(6, 1, 0, 5), Word(6, 2, 0, 3), SetI(0), Word(13, 7, 8, 5), Word(7, 1, 0, 1),
       Word(8, 1, 2, 0), Word(8, 1, 2, 1), Word(8, 1, 2, 2), Word(8, 1, 2, 3),
       Word(8, 1, 2, 4), Word(8, 1, 2, 5), Word(8, 1, 2, 6), Word(8, 1, 2, 7),
       Word(8, 1, 2, 14), Word(3, 1, 0, 0), Word(6, 6, 0, 0), Word(4, 1, 0, 0),
       Word(6, 6, 0, 0), Word(5, 1, 2, 0), Word(6, 6, 0, 0), Word(9, 1, 2, 0),
       Word(6, 6, 0, 0), Word(12, 3, 0, 15), Word(14, 4, 9, 14), Word(6, 6, 0, 0),
       Word(14, 4, 10, 1), Word(6, 6, 0, 0), Word(15, 1, 0, 7), Word(15, 1, 1, 5), Word(15, 1, 1, 8), Word(15, 1, 1, 14),
       Word(15, 1, 2, 9), SetI(768), Word(15, 1, 3, 3), Word(15, 2, 5, 5),
       Word(15, 2, 6, 5), Call(At(41)), 224, Word(6, 0, 0, 2), Word(11, 0, 0, 0) + At(39),
       Jump(At(44)), SetI(0), Word(13, 7, 8, 4), 238, Word(15, 5, 0, 10), Word(13, 1, 2, 1),
       Word(0, 1, 2, 3) >>

\* the key the user touches in a run of AllOpsRom
AllOpsKeys == {4}

InitAll == \E t0 \in StartTimes : InitWith(AllOpsRom, AllOpsKeys, t0)

SpecAll == InitAll /\ [][Next]_vars

\* VX = a, VY = b, then 8XYn, then a jump to itself
AluRom(X, Y, a, b, n) ==
    << Word(6, X, a \div 16, a % 16), Word(6, Y, b \div 16, b % 16), Word(8, X, Y, n),
       Jump(At(3)) >>

\* operand values around the ends and the middle of the byte range
AluValues == {0, 1, 127, 128, 200, 255}

\* 8XY4, 8XY5 and 8XY7 on two registers, with Y = F, and with Y = X
AluRoms ==
    {AluRom(p[1], p[2], a, b, n) :
        p \in {<< 1, 2 >>, << 3, 15 >>, << 4, 4 >>}, a \in AluValues, b \in AluValues,
        n \in {4, 5, 7}}

InitAlu == \E rom \in AluRoms, t0 \in StartTimes : InitWith(rom, {}, t0)

SpecAlu == InitAlu /\ [][Next]_vars

\* 8XY6 and 8XYE on two registers, with Y = F, and with Y = X
ShiftRoms ==
    {AluRom(p[1], p[2], a, b, n) :
        p \in {<< 1, 2 >>, << 3, 15 >>, << 4, 4 >>}, a \in AluValues, b \in AluValues,
        n \in {6, 14}}

InitShift == \E rom \in ShiftRoms, t0 \in StartTimes : InitWith(rom, {}, t0)

SpecShift == InitShift /\ [][Next]_vars

\* operand values with no, low, alternate and all bits set
LogicValues == {0, 15, 170, 255}

\* 8XY1, 8XY2 and 8XY3 on two registers, with Y = F, with Y = X, with X = F and with
\* X = Y = F
LogicRoms ==
    {AluRom(p[1], p[2], a, b, n) :
        p \in {<< 1, 2 >>, << 3, 15 >>, << 4, 4 >>, << 15, 2 >>, << 15, 15 >>},
        a \in LogicValues, b \in LogicValues, n \in {1, 2, 3}}

InitLogic == \E rom \in LogicRoms, t0 \in StartTimes : InitWith(rom, {}, t0)

SpecLogic == InitLogic /\ [][Next]_vars

\* V1 = a, V2 = b, then a skip, a 6600 after it, and a jump back to the skip
SkipRom(a, b, op) ==
    << Word(6, 1, 0, a), Word(6, 2, 0, b), op, Word(6, 6, 0, 0), Jump(At(2)) >>

\* every skip with V1 = 4 and V1 = 5 against NN = 5, V2 = 5 and the key the user touches
SkipRoms ==
    {SkipRom(a, 5, op) :
        a \in {4, 5},
        op \in {Word(3, 1, 0, 5), Word(4, 1, 0, 5), Word(5, 1, 2, 0), Word(9, 1, 2, 0),
                Word(14, 1, 9, 14), Word(14, 1, 10, 1)}}

InitPc ==
    \E rom \in {AllOpsRom} \cup SkipRoms, t0 \in StartTimes : InitWith(rom, AllOpsKeys, t0)

SpecPc == InitPc /\ [][Next]_vars

\* V1 = 5, both timers = 5, I = sprite; k draws of 3 rows at (5, 0), (0, 5) and (5, 5);
\* then a call of a subroutine that is 00E0, 00EE; then a jump to itself
ClearRom(k, b) ==
    << Word(6, 1, 0, 5), Word(15, 1, 1, 5), Word(15, 1, 1, 8), SetI(At(11)),
       IF k >= 1 THEN Word(13, 1, 2, 3) ELSE Word(6, 6, 0, 0),
       IF k >= 2 THEN Word(13, 2, 1, 3) ELSE Word(6, 6, 0, 0),
       IF k >= 3 THEN Word(13, 1, 1, 3) ELSE Word(6, 6, 0, 0),
       Call(At(9)), Jump(At(8)), 224, 238 >> \o SpriteWords(b)

\* no draw to three draws before the 00E0, of a full and of a hollow sprite
ClearRoms == {ClearRom(k, b) : k \in 0..3, b \in {255, 129}}

InitClear == \E rom \in ClearRoms, t0 \in StartTimes : InitWith(rom, {}, t0)

SpecClear == InitClear /\ [][Next]_vars

\* V1 = v, then a key skip on V1, a 6600 after it, and a jump back to the skip
KeySkipRom(v, op) ==
    << Word(6, 1, v \div 16, v % 16), op, Word(6, 6, 0, 0), Jump(At(1)) >>

\* EX9E and EXA1 with VX the first and last key, the first value past them, and 255
KeySkipRoms ==
    {KeySkipRom(v, op) :
        v \in {0, NUM_KEYS - 1, NUM_KEYS, 255},
        op \in {Word(14, 1, 9, 14), Word(14, 1, 10, 1)}}

\* the key the user touches in a run of a KeySkipRom
KeySkipKeys == {NUM_KEYS - 1}

InitKeySkip == \E rom \in KeySkipRoms, t0 \in StartTimes : InitWith(rom, KeySkipKeys, t0)

SpecKeySkip == InitKeySkip /\ [][Next]_vars

\* 8XY4, 8XY5, 8XY6, 8XY7 and 8XYE with X = F, on another register and with Y = F
FlagDestRoms ==
    {AluRom(15, Y, a, b, n) :
        Y \in {2, 15}, a \in AluValues, b \in AluValues, n \in {4, 5, 6, 7, 14}}

InitFlagDest == \E rom \in FlagDestRoms, t0 \in StartTimes : InitWith(rom, {}, t0)

SpecFlagDest == InitFlagDest /\ [][Next]_vars

(***************************************************************************)
(* main from init_cpu to the loop: load_rom, and return 1 when it failed.  *)
(***************************************************************************)

\* values fopen leaves in errno when it fails: ENOENT, EACCES
OpenErrors == {2, 13}

\* a ROM of n bytes that jumps to itself
SpinBytes(n) == [k \in 1..n |-> IF k % 2 = 1 THEN Jump(At(0)) \div 256 ELSE Jump(At(0)) % 256]

\* Files: ROMs that load (one empty, one that fills memory to its last byte); files that
\* do not open; files fread delivers less or more of than stat reported; and ROMs one and
\* two bytes larger than the room from 0x200.
LoadFiles ==
    {FileOf(rom) : rom \in {TimerRom(1, 3), PaddedDrawRom(2), << >>}} \cup
    {[errno |-> e, st_size |-> 2 * Len(TimerRom(1, 3)), bytes |-> RomBytes(TimerRom(1, 3))] :
        e \in OpenErrors} \cup
    {[errno |-> 0, st_size |-> n, bytes |-> RomBytes(PaddedDrawRom(2))] : n \in {0, 7, 9, 4096}} \cup
    {[errno |-> 0, st_size |-> n, bytes |-> SpinBytes(n)] :
        n \in {MEMORY_SIZE - ROM_BASE, MEMORY_SIZE - ROM_BASE + 1, MEMORY_SIZE - ROM_BASE + 2}}

\* main is about to call load_rom: init_cpu has seeded the random source and copied the font
InitLoad ==
    \E f \in LoadFiles : InitState(FontMemory, f, {}, 0, "load")

\* err_check_load_rom = load_rom(rom); if (err_check_load_rom) { ...; return 1; }
\* then current_time = SDL_GetTicks().  The message for -1 goes through error(), which the
\* program does not declare; whatever that call does, main does not reach the loop.
LoadRom ==
    /\ pc = "load"
    /\ LET r == load_rom(rom_file, memory)
       IN  /\ err_check_load_rom' = r.ret
           /\ memory' = r.memory
           /\ IF r.ret # 0
              THEN pc' = "exit" /\ current_time' = current_time
              ELSE pc' = "while" /\ current_time' \in StartTimes
    /\ UNCHANGED << V, I, PC, stack, stack_idx, keypad, display, delay_timer, sound_timer,
                    draw_flag, key_found, key_pressed, srand_calls, rom_file, should_quit, i,
                    draw_occurred, last_draw_time, hist_vars >>

NextLoad == LoadRom \/ Next

SpecLoad == InitLoad /\ [][NextLoad]_vars

(***************************************************************************)
(* Properties.                                                             *)
(***************************************************************************)

\* the word emulate_cycle is about to execute, and its X
CurOp == Fetch(CpuState, 0)
CurX == Decode(CurOp).X
CurY == Decode(CurOp).Y

\* the next step is an emulate_cycle call on an FX0A
AtWait == pc = "batch" /\ IsWait(CurOp)

\* C1: an emulate_cycle call moves PC past an FX0A only when the key latch showed a key
\* down at that call or at an earlier call since PC arrived at that FX0A.
C1_NoAdvanceWithoutPress ==
    [][(AtWait /\ PC' # PC) => (wait_seen \/ KeyDown(keypad))]_vars

C3_CapturedKeyInVX ==
    [][(AtWait /\ PC' # PC) =>
        /\ V'[CurX] = key_pressed
        /\ key_found' = FALSE
        /\ key_pressed' = NO_KEY]_vars

\* the next step is an emulate_cycle call on a 00EE that matches a recorded 2NNN
AtReturn == pc = "batch" /\ IsReturn(CurOp) /\ calls # << >> /\ ~ub

AtDraw == pc = "batch" /\ IsDraw(CurOp)

\* what the claims say of a DXYN, from the state before it: the origin, and the set bits
\* of the 8-by-N sprite at I whose column and row are on the screen, as <<row, bit>>
OriginX == V[CurX] % SCREEN_WIDTH
OriginY == V[CurY] % SCREEN_HEIGHT
SpriteBit(r, b) == Bit(memory[I + r], 7 - b)
SetBits == {p \in (0..((CurOp % 16) - 1)) \X (0..7) : SpriteBit(p[1], p[2]) = 1}
OnScreen(p) == OriginX + p[2] < SCREEN_WIDTH /\ OriginY + p[1] < SCREEN_HEIGHT
Cell(p) == (OriginY + p[1]) * SCREEN_WIDTH + OriginX + p[2]
InBoundsCells == {Cell(p) : p \in {q \in SetBits : OnScreen(q)}}

AtRepeatedDraw ==
    /\ AtDraw
    /\ last_op = CurOp
    /\ PC = last_PC + 2
    /\ CurX # 15
    /\ CurY # 15

\* C6 as stated: VF after a DXYN is 1 exactly when an in-bounds set bit landed on a cell
\* that was 1, and a DXYN that repeats the one before it (X, Y not F) puts the framebuffer
\* back to what it was before the first and leaves VF = 1 whenever the sprite has an
\* in-bounds set bit.
C6_Original ==
    [][AtDraw =>
        /\ V'[15] = IF \E k \in InBoundsCells : display[k] = 1 THEN 1 ELSE 0
        /\ AtRepeatedDraw =>
            /\ display' = last_display
            /\ InBoundsCells # {} => V'[15] = 1]_vars

\* C6 amended: VF after a DXYN is 1 exactly when an in-bounds set bit landed on a cell that
\* was 1, every cell under an in-bounds set bit is toggled, and a DXYN that repeats the one
\* before it (X, Y not F) puts the framebuffer back to what it was before the first and
\* leaves VF = 1 exactly when some in-bounds set bit lies on a cell that was 0 before the
\* first of the two draws.
C6_DrawSelfCancels ==
    [][AtDraw =>
        /\ V'[15] = IF \E k \in InBoundsCells : display[k] = 1 THEN 1 ELSE 0
        /\ \A k \in InBoundsCells : display'[k] = 1 - display[k]
        /\ AtRepeatedDraw =>
            /\ display' = last_display
            /\ V'[15] = IF \E k \in InBoundsCells : last_display[k] = 0 THEN 1 ELSE 0]_vars

\* the second of two equal draws has just erased what the first had drawn
C6_Witness ==
    /\ IsDraw(last_op)
    /\ last_PC = At(4)
    /\ V[15] = 1
    /\ \E k \in 0..(DISPLAY_SIZE - 1) : last_display[k] = 1
    /\ \A k \in 0..(DISPLAY_SIZE - 1) : display[k] = 0

\* what is left of a timer set to k after n ticks
Left(k, n) == IF k > n THEN k - n ELSE 0

\* the two timers against the ticks counted since FX15 / FX18 last set them
TimerLaw ==
    /\ delay_timer \in Byte
    /\ sound_timer \in Byte
    /\ dt_ticks < TickCap => delay_timer = Left(dt_set, dt_ticks)
    /\ dt_ticks = TickCap => delay_timer <= Left(dt_set, TickCap)
    /\ st_ticks < TickCap => sound_timer = Left(st_set, st_ticks)
    /\ st_ticks = TickCap => sound_timer <= Left(st_set, TickCap)

\* C7: every tick decrements each timer once, by 1 if it is nonzero and not at all if it
\* is 0, whatever the number of calls in its batch; nothing but that step and FX15 / FX18
\* changes a timer; so a timer set to k is Left(k, n) after n ticks, 0 from the k-th tick on,
\* and never below 0.
C7_TimersDecayOncePerTick ==
    [][/\ pc = "timers" =>
            /\ ~tick_timers
            /\ tick_timers'
            /\ delay_timer' = (IF delay_timer = 0 THEN 0 ELSE delay_timer - 1)
            /\ sound_timer' = (IF sound_timer = 0 THEN 0 ELSE sound_timer - 1)
       /\ pc = "flush" => pc' = "timers"
       /\ (pc # "timers" /\ ~(pc = "batch" /\ IsSetDelay(CurOp))) => delay_timer' = delay_timer
       /\ (pc # "timers" /\ ~(pc = "batch" /\ IsSetSound(CurOp))) => sound_timer' = sound_timer
       /\ TimerLaw']_vars

\* a delay timer set to 5 has just reached 0, at the end of the 5th tick
C7_Witness ==
    /\ pc = "handler"
    /\ dt_set = 5
    /\ dt_ticks = 5
    /\ delay_timer = 0
    /\ st_set = 3
    /\ sound_timer = 0

\* C8: a tick makes at most 16 emulate_cycle calls and none after a call that returned true,
\* so at most one DXYN executes in a tick.
C8_BoundedBatch ==
    /\ tick_calls <= 16
    /\ tick_draws <= 1
    /\ pc = "batch" =>
        /\ tick_calls < 16
        /\ ~draw_occurred
        /\ tick_draws = 0
    /\ draw_occurred => tick_draws = 1

\* a batch was cut short by a draw at its 3rd call
C8_Witness ==
    /\ pc = "flush"
    /\ draw_occurred
    /\ tick_calls = 3
    /\ tick_draws = 1
    /\ IsDraw(last_op)

\* what C9 says of the state at each point of a tick
FlushLaw ==
    /\ pc = "batch" => draw_flag = 0 /\ tick_flushes = 0 /\ ~tick_timers
    /\ pc = "flush" => tick_flushes = 0 /\ ~tick_timers /\ (draw_flag # 0 <=> tick_draws > 0)
    /\ pc \in {"timers", "handler"} =>
        /\ draw_flag = 0
        /\ tick_flushes = (IF tick_draws > 0 THEN 1 ELSE 0)
    /\ pc = "handler" => tick_timers

\* C9: in a tick in which a DXYN executed the framebuffer is flushed exactly once, after the
\* batch and before the timers are decremented, and draw_flag is cleared by that step; in a
\* tick with no DXYN nothing is flushed; draw_flag is 0 whenever a batch starts.
C9_FlushOncePerDrawTick ==
    [][/\ FlushLaw'
       /\ tick_flushes' > tick_flushes =>
            /\ pc = "flush"
            /\ pc' = "timers"
            /\ ~tick_timers
            /\ tick_draws > 0
            /\ draw_flag' = 0
            /\ display' = display
       /\ (pc = "while" /\ pc' = "batch") => draw_flag = 0]_vars

\* the tick in which a DXYN executed has flushed once and decremented the timers
C9_Witness ==
    /\ pc = "handler"
    /\ tick_draws = 1
    /\ tick_flushes = 1
    /\ tick_timers
    /\ draw_flag = 0

IsStore(op) == op \div 4096 = 15 /\ op % 256 = 85
IsLoad(op) == op \div 4096 = 15 /\ op % 256 = 101

\* the copy FX55 makes, for a range that lies inside memory: V0..VX to memory[I..I+X],
\* nothing else in memory and no register changed
StoreCopies ==
    /\ \A a \in 0..(MEMORY_SIZE - 1) :
        memory'[a] = IF a \in I..(I + CurX) THEN V[a - I] ELSE memory[a]
    /\ V' = V

\* the copy FX65 makes, for a range that lies inside memory: memory[I..I+X] to V0..VX,
\* no other register and nothing in memory changed
LoadCopies ==
    /\ \A k \in 0..(NUM_REGS - 1) : V'[k] = IF k <= CurX THEN memory[I + k] ELSE V[k]
    /\ memory' = memory

CopyInMemory == I + CurX <= MEMORY_SIZE - 1

\* C10: FX55 copies V0..VX to memory[I..I+X], FX65 copies memory[I..I+X] to V0..VX, and I
\* is after either instruction what it was before.
C10_CopyLeavesIndex ==
    [][/\ (pc = "batch" /\ IsStore(CurOp) /\ CopyInMemory) => (StoreCopies /\ I' = I)
       /\ (pc = "batch" /\ IsLoad(CurOp) /\ CopyInMemory) => (LoadCopies /\ I' = I)]_vars

\* what the code does instead: the copies are as C10 says, and I ends 15 higher (mod 2^16)
C10_CopyAddsFifteen ==
    [][/\ (pc = "batch" /\ IsStore(CurOp) /\ CopyInMemory) =>
            (StoreCopies /\ I' = (I + 15) % 65536)
       /\ (pc = "batch" /\ IsLoad(CurOp) /\ CopyInMemory) =>
            (LoadCopies /\ I' = (I + 15) % 65536)]_vars

\* the words that are no instruction
IsUnknown(op) ==
    LET d == Decode(op)
    IN  \/ d.opcode_type = 0 /\ d.op_nibbles \notin {224, 238}
        \/ d.opcode_type \in {5, 9} /\ d.N # 0
        \/ d.opcode_type = 8 /\ d.N \in (8..13) \cup {15}
        \/ d.opcode_type = 14 /\ d.NN \notin {158, 161}
        \/ d.opcode_type = 15 /\ d.NN \notin {7, 10, 21, 24, 30, 41, 51, 85, 101}

\* C11: an emulate_cycle call on a word that is no instruction changes neither PC nor a
\* register, memory cell or framebuffer cell, and after such a call the scheduler makes no
\* further emulate_cycle call.
C11_UnknownIsFatal ==
    [][/\ (pc = "batch" /\ IsUnknown(CurOp)) =>
            /\ PC' = PC
            /\ V' = V
            /\ I' = I
            /\ memory' = memory
            /\ display' = display
       /\ (last_op # -1 /\ IsUnknown(last_op)) => tick_calls' <= tick_calls]_vars

\* C12: in every reachable state stack_idx is an index of the stack array, and no 2NNN or
\* 00EE has written or read outside the array (a call on a full stack and a return on an
\* empty one stop the interpreter instead).
C12_StackFaultsAreFatal ==
    /\ stack_idx \in 0..(STACK_SIZE - 1)
    /\ ~ub

IsBcd(op) == op \div 4096 = 15 /\ op % 256 = 51

\* the addresses an emulate_cycle call uses: the two bytes of the fetch, the N sprite rows
\* of a DXYN, the three digits of an FX33, the X + 1 bytes of an FX55 or FX65
MemFootprint ==
    {PC, PC + 1} \cup
    (IF PC + 1 > MEMORY_SIZE - 1 THEN {}
     ELSE IF IsDraw(CurOp) THEN {I + r : r \in 0..((CurOp % 16) - 1)}
     ELSE IF IsBcd(CurOp) THEN I..(I + 2)
     ELSE IF IsStore(CurOp) \/ IsLoad(CurOp) THEN I..(I + CurX)
     ELSE {})

\* C13: an emulate_cycle call whose fetch, sprite rows, FX33 digits or FX55 / FX65 range
\* would use an address outside 0..4095 does not perform the access.
C13_AddressingIsChecked ==
    [][(pc = "batch" /\ ~ub /\ ~(MemFootprint \subseteq 0..(MEMORY_SIZE - 1))) => ~ub']_vars

\* C18: PC is even in every reachable state.
C18_PCAlwaysEven == PC % 2 = 0

\* C14: keypad changes only in the input handler's step, which is taken once per tick, after
\* the batch, the flush and the timer decrement; no emulate_cycle call changes it, so it is
\* the same at every call of one batch.
C14_KeypadStableInBatch ==
    [][/\ keypad' # keypad => (pc = "handler" /\ pc' = "while" /\ tick_timers)
       /\ pc = "batch" => keypad' = keypad
       /\ pc' = "handler" => pc = "timers"
       /\ pc = "handler" => pc' = "while"]_vars

\* the handler has put a key down after a full batch of FX0A calls that saw no key down
C14_Witness ==
    /\ pc = "while"
    /\ KeyDown(keypad)
    /\ IsWait(last_op)
    /\ ~wait_seen
    /\ tick_calls = BATCH_SIZE
    /\ tick_timers

\* C15: should_quit is set only by the input handler's step at the end of a tick; a batch
\* ends only at a draw or after 16 calls; and once should_quit is set the loop is left
\* with no further emulate_cycle call, flush or timer decrement.
C15_QuitOncePerTick ==
    [][/\ should_quit' # should_quit => (pc = "handler" /\ tick_timers /\ should_quit')
       /\ (pc = "batch" /\ pc' # "batch") => (draw_occurred' \/ tick_calls' = BATCH_SIZE)
       /\ should_quit =>
            /\ pc \in {"while", "done"}
            /\ pc' = "done"
            /\ tick_calls' = tick_calls
            /\ tick_flushes' = tick_flushes
            /\ UNCHANGED cpu_vars]_vars

\* the loop was left after a tick that ran its whole batch and decremented a timer
C15_Witness ==
    /\ pc = "done"
    /\ should_quit
    /\ tick_calls = BATCH_SIZE
    /\ tick_timers
    /\ dt_set = 5
    /\ delay_timer = 4

IsRandom(op) == op \div 4096 = 12

\* C16: a CXNN leaves VX = r AND NN for some byte r and moves PC on by 2, and no step of
\* the program after initialisation seeds the random source again.
C16_SeededOnce ==
    [][/\ (pc = "batch" /\ IsRandom(CurOp)) =>
            /\ PC' = PC + 2
            /\ \E r \in Byte : V'[CurX] = BitAnd(r, CurOp % 256)
       /\ srand_calls' = srand_calls]_vars

\* the number of bytes of the file that were copied to memory from 0x200
BytesCopied ==
    IF Len(rom_file.bytes) < MEMORY_SIZE - ROM_BASE
    THEN Len(rom_file.bytes) ELSE MEMORY_SIZE - ROM_BASE

\* C17: load_rom returns 0 exactly when the file opened and the bytes copied to memory from
\* 0x200 are as many as the size the file reported; a file that does not open gives the
\* (positive) errno and a short read gives -1, which every ROM larger than the room from
\* 0x200 is; and after a non-zero result main returns with no emulate_cycle call made.
C17_LoadFailureSurfaced ==
    /\ pc = "load" => last_op = -1
    /\ pc # "load" =>
        /\ err_check_load_rom = 0 <=>
                (rom_file.errno = 0 /\ BytesCopied = rom_file.st_size)
        /\ rom_file.errno # 0 => (err_check_load_rom = rom_file.errno /\ err_check_load_rom > 0)
        /\ (rom_file.errno = 0 /\ BytesCopied # rom_file.st_size) => err_check_load_rom = -1
        /\ (rom_file.errno = 0 /\ rom_file.st_size > MEMORY_SIZE - ROM_BASE) =>
                err_check_load_rom = -1
        /\ err_check_load_rom # 0 => (pc = "exit" /\ last_op = -1 /\ tick_calls = 0)
        /\ (err_check_load_rom = 0 /\ last_op = -1) =>
                \A k \in 0..(BytesCopied - 1) : memory[ROM_BASE + k] = rom_file.bytes[k + 1]

\* main has returned on a ROM one byte larger than the room from 0x200
C17_Witness ==
    /\ pc = "exit"
    /\ err_check_load_rom = -1
    /\ rom_file.errno = 0
    /\ rom_file.st_size = Len(rom_file.bytes)
    /\ rom_file.st_size = MEMORY_SIZE - ROM_BASE + 1
    /\ last_op = -1

\* C19: every framebuffer cell is 0 or 1; a DXYN leaves each cell as it was or toggled, a
\* 00E0 leaves every cell 0, and no other emulate_cycle call and no other step of the
\* program changes a cell.
C19_FramebufferBinary ==
    [][/\ \A k \in 0..(DISPLAY_SIZE - 1) : display[k] \in {0, 1} /\ display'[k] \in {0, 1}
       /\ AtDraw => \A k \in 0..(DISPLAY_SIZE - 1) :
                        display'[k] = display[k] \/ display'[k] = BitXor(display[k], 1)
       /\ (pc = "batch" /\ CurOp = 224) => \A k \in 0..(DISPLAY_SIZE - 1) : display'[k] = 0
       /\ ~(pc = "batch" /\ (IsDraw(CurOp) \/ CurOp = 224)) => display' = display]_vars

\* a 00E0 has just cleared a framebuffer that had lit cells
C19_Witness ==
    /\ last_op = 224
    /\ PC = last_PC + 2
    /\ \E k \in 0..(DISPLAY_SIZE - 1) : last_display[k] = 1
    /\ \A k \in 0..(DISPLAY_SIZE - 1) : display[k] = 0

\* the next step is an emulate_cycle call on an 8XYn with X # F
AtAlu(n) == pc = "batch" /\ CurOp \div 4096 = 8 /\ CurOp % 16 = n /\ CurX # 15

Flag(b) == IF b THEN 1 ELSE 0

AtLogic(n) == pc = "batch" /\ CurOp \div 4096 = 8 /\ CurOp % 16 = n

\* bit k of a OR b, a AND b, a XOR b for n = 1, 2, 3
LogicBit(n, a, b, k) ==
    CASE n = 1 -> Flag(Bit(a, k) = 1 \/ Bit(b, k) = 1)
      [] n = 2 -> Flag(Bit(a, k) = 1 /\ Bit(b, k) = 1)
      [] n = 3 -> Flag(Bit(a, k) # Bit(b, k))

\* C22: 8XY1, 8XY2 and 8XY3 leave VX = VX OR VY, VX AND VY, VX XOR VY when X # F and
\* leave VF = 0 always, also with X = F or Y = F; no register other than VX and VF
\* changes and PC advances by 2.
C22_LogicClearsVF ==
    [][\A n \in {1, 2, 3} :
        AtLogic(n) =>
            /\ CurX # 15 =>
                    /\ V'[CurX] \in Byte
                    /\ \A k \in 0..7 : Bit(V'[CurX], k) = LogicBit(n, V[CurX], V[CurY], k)
            /\ V'[15] = 0
            /\ \A r \in 0..(NUM_REGS - 1) : r \notin {CurX, 15} => V'[r] = V[r]
            /\ PC' = PC + 2]_vars

\* an 8XY3 with VX = 15 and VY = VF = 170 has left VX = 165 and VF = 0
C22_Witness ==
    /\ last_op = Word(8, 3, 15, 3)
    /\ PC = last_PC + 2
    /\ last_V[3] = 15
    /\ last_V[15] = 170
    /\ V[3] = 165
    /\ V[15] = 0

\* the condition of the skip instruction op, on the registers and keys as they are
SkipHolds(op) ==
    LET d == Decode(op)
    IN  CASE d.opcode_type = 3 -> V[d.X] = d.NN
          [] d.opcode_type = 4 -> V[d.X] # d.NN
          [] d.opcode_type = 5 -> V[d.X] = V[d.Y]
          [] d.opcode_type = 9 -> V[d.X] # V[d.Y]
          [] d.opcode_type = 14 /\ d.NN = 158 -> keypad[V[d.X]] # 0
          [] d.opcode_type = 14 /\ d.NN = 161 -> keypad[V[d.X]] = 0

\* the latched key of an FX0A is up: this call ends the wait
WaitEnds == key_found /\ key_pressed \in 0..(NUM_KEYS - 1) /\ keypad[key_pressed] = 0

C24_ClearFrame ==
    [][(pc = "batch" /\ CurOp = 224) =>
        /\ \A k \in 0..(DISPLAY_SIZE - 1) : display'[k] = 0
        /\ PC' = PC + 2
        /\ V' = V
        /\ I' = I
        /\ memory' = memory
        /\ stack' = stack
        /\ stack_idx' = stack_idx
        /\ delay_timer' = delay_timer
        /\ sound_timer' = sound_timer]_vars

\* a 00E0 inside a subroutine, with both timers running, has cleared what three draws
\* had lit
C24_Witness ==
    /\ last_op = 224
    /\ PC = last_PC + 2
    /\ stack_idx = 1
    /\ delay_timer > 0
    /\ sound_timer > 0
    /\ V[1] = 5
    /\ last_display[5] = 1
    /\ last_display[5 * SCREEN_WIDTH] = 1
    /\ last_display[5 * SCREEN_WIDTH + 5] = 1
    /\ \A k \in 0..(DISPLAY_SIZE - 1) : display[k] = 0

\* C25: whatever the clock read before the loop, a pass of the loop that finds no quit
\* raised goes on to run a tick (and with it the input handler, where a pending quit is
\* observed); the loop is never in a state where it can only spin.
C25_LoopProgresses ==
    (pc = "while" /\ ~should_quit) => ENABLED (WhileTest /\ pc' = "batch")

\* C26: before an emulate_cycle call on CXNN, every byte v with (v AND NN) = v is a value
\* the call can leave in VX, for some number the random source delivers.
C26_RandomCoversByte ==
    (pc = "batch" /\ IsRandom(CurOp)) =>
        \A v \in Byte :
            BitAnd(v, CurOp % 256) = v =>
                \E r \in RandValues :
                    emulate_cycle(CpuState, [rand |-> r, wild |-> 0, wildw |-> 0]).V[CurX] = v

IsKeySkip(op) == op \div 4096 = 14 /\ op % 256 \in {158, 161}

\* C27: an emulate_cycle call on EX9E or EXA1 reads keypad at an index in 0..15 whatever
\* VX holds: it makes no read outside the array.
C27_KeyIndexInRange ==
    [][(pc = "batch" /\ IsKeySkip(CurOp) /\ ~ub) => ~ub']_vars

\* the next step is an emulate_cycle call on an 8FYn
AtFlagDest(n) == pc = "batch" /\ CurOp \div 4096 = 8 /\ CurOp % 16 = n /\ CurX = 15

\* C28: with X = F, 8XY4, 8XY5, 8XY7, 8XY6 and 8XYE leave in VF the carry, the
\* not-borrow or the bit shifted out, computed from the values VF and VY had before the
\* instruction, and not the sum, difference or shifted value.
C28_FlagWinsOverResult ==
    [][/\ AtFlagDest(4) => V'[15] = Flag(V[15] + V[CurY] > 255)
       /\ AtFlagDest(5) => V'[15] = Flag(V[15] >= V[CurY])
       /\ AtFlagDest(7) => V'[15] = Flag(V[CurY] >= V[15])
       /\ AtFlagDest(6) => V'[15] = V[CurY] % 2
       /\ AtFlagDest(14) => V'[15] = V[CurY] \div 128]_vars

\* an 8F24 with VF = 200 and V2 = 200 has left VF = 1, the carry, and not 144, the sum
C28_Witness ==
    /\ last_op = Word(8, 15, 2, 4)
    /\ PC = last_PC + 2
    /\ last_V[15] = 200
    /\ last_V[2] = 200
    /\ V[15] = 1

====
